---- MODULE Spec2Model ----
(***************************************************************************)
(* Model of audio_utils ChannelMix (ChannelMix.h): the downmix of a        *)
(* positional multichannel stream to stereo.                               *)
(*                                                                         *)
(* Sample arithmetic.  Every gain of the class is 0, 0.5 or 0.5/sqrt(2),   *)
(* so every value the mixer computes from whole-number samples lies in     *)
(* the ring Z[1/sqrt(2)]/4.  A float is modelled as the pair   *)
(* <<a, b>> that stands for the real number (a + b*g)/4, g = 1/sqrt(2).    *)
(* Sums, products and comparisons are exact on these pairs; the rounding   *)
(* of IEEE single precision is not modelled.                               *)
(***************************************************************************)
EXTENDS Integers, Sequences, FiniteSets, TLC

\* ------------------------------------------------------------------ bounds
\* Largest frameCount of a process() call.
MaxFrames == 2
\* Source samples are the floats -SampleMax.0, 0.0 and SampleMax.0.
SampleMax == 1
\* Prior destination samples are the floats -DstMax.0, 0.0 and DstMax.0.
DstMax == 1

\* ------------------------------------------------------- program constants
\* The channel counts and position bits of channels.h, which ChannelMix.h
\* includes; the order of the bits is the sample order its comments give
\* (FL FR FC LFE BL BR BC SL SR).
FCC_24 == 24
FCC_2 == 2
mOutputChannelCount == FCC_2

AUDIO_CHANNEL_NONE == 0
AUDIO_CHANNEL_OUT_FRONT_LEFT == 1
AUDIO_CHANNEL_OUT_FRONT_RIGHT == 2
AUDIO_CHANNEL_OUT_FRONT_CENTER == 4
AUDIO_CHANNEL_OUT_LOW_FREQUENCY == 8
AUDIO_CHANNEL_OUT_BACK_LEFT == 16
AUDIO_CHANNEL_OUT_BACK_RIGHT == 32
AUDIO_CHANNEL_OUT_BACK_CENTER == 256
AUDIO_CHANNEL_OUT_SIDE_LEFT == 512
AUDIO_CHANNEL_OUT_SIDE_RIGHT == 1024

AUDIO_CHANNEL_OUT_QUAD_BACK ==
    AUDIO_CHANNEL_OUT_FRONT_LEFT + AUDIO_CHANNEL_OUT_FRONT_RIGHT
    + AUDIO_CHANNEL_OUT_BACK_LEFT + AUDIO_CHANNEL_OUT_BACK_RIGHT
AUDIO_CHANNEL_OUT_QUAD_SIDE ==
    AUDIO_CHANNEL_OUT_FRONT_LEFT + AUDIO_CHANNEL_OUT_FRONT_RIGHT
    + AUDIO_CHANNEL_OUT_SIDE_LEFT + AUDIO_CHANNEL_OUT_SIDE_RIGHT
AUDIO_CHANNEL_OUT_5POINT1_BACK ==
    AUDIO_CHANNEL_OUT_QUAD_BACK
    + AUDIO_CHANNEL_OUT_FRONT_CENTER + AUDIO_CHANNEL_OUT_LOW_FREQUENCY
AUDIO_CHANNEL_OUT_5POINT1_SIDE ==
    AUDIO_CHANNEL_OUT_QUAD_SIDE
    + AUDIO_CHANNEL_OUT_FRONT_CENTER + AUDIO_CHANNEL_OUT_LOW_FREQUENCY
AUDIO_CHANNEL_OUT_7POINT1 ==
    AUDIO_CHANNEL_OUT_5POINT1_BACK
    + AUDIO_CHANNEL_OUT_SIDE_LEFT + AUDIO_CHANNEL_OUT_SIDE_RIGHT

\* ------------------------------------------------------ exact float values
\* <<a, b>> is (a + b*g)/4 with g = 1/sqrt(2).
FZero == <<0, 0>>
\* 0.5f
FHalf == <<2, 0>>
\* MINUS_3_DB_IN_FLOAT = M_SQRT1_2
MINUS_3_DB_IN_FLOAT == <<0, 4>>
\* LIMIT_AMPLITUDE = 1.f
LIMIT_AMPLITUDE == <<4, 0>>
\* The float n.0.
FSample(n) == <<4 * n, 0>>

FAdd(x, y) == <<x[1] + y[1], x[2] + y[2]>>
FNeg(x) == <<-x[1], -x[2]>>
\* (a + b g)(c + d g)/16 = ((ac + bd/2) + (ad + bc) g)/16, in quarters.  The
\* divisions are exact on the products the mixer forms: a gain times a
\* whole-number sample, a sum of samples times g, and such a sum times 0.5.
FMul(x, y) ==
    <<(2 * x[1] * y[1] + x[2] * y[2]) \div 8, (x[1] * y[2] + x[2] * y[1]) \div 4>>
\* a + b g < 0, i.e. a*sqrt(2) + b < 0, decided on integers.
FNegative(x) ==
    LET a == x[1]
        b == x[2]
    IN  IF a <= 0 /\ b <= 0 THEN a < 0 \/ b < 0
        ELSE IF a >= 0 /\ b >= 0 THEN FALSE
        ELSE IF a > 0 THEN 2 * a * a < b * b
        ELSE 2 * a * a > b * b
FLess(x, y) == FNegative(FAdd(x, FNeg(y)))
fmax(x, y) == IF FLess(x, y) THEN y ELSE x
fmin(x, y) == IF FLess(y, x) THEN y ELSE x

\* A fault: only the upper limit is applied.
clampUpperOnly(value) == fmin(value, LIMIT_AMPLITUDE)
clamp(value) == fmin(fmax(value, FNeg(LIMIT_AMPLITUDE)), LIMIT_AMPLITUDE)

\* ------------------------------------------------------------ mixer state
VARIABLES
    mMatrix,                        \* float mMatrix[FCC_24][FCC_2]
    mMatrixWritten,                 \* rows of mMatrix assigned since construction
    mInputChannelMask,
    mLastValidChannelIndexPlusOne,
    mInputChannelCount,
    op,                             \* the last call: "new", "set", "process4", "process5"
    ret,                            \* its return value
    argMask,                        \* its inputChannelMask argument
    setRet,                         \* what its setInputChannelMask step returned
    frameCount,                     \* its frameCount argument
    accumulate,                     \* its accumulate argument
    srcHot, srcA, srcB,             \* the memory src points into (see Src)
    dstFill,                        \* dst before the call (see DstIn)
    dst,                            \* dst after the call
    srcRead,                        \* src indices the call read
    dstWritten,                     \* dst indices the call wrote
    uninitRead                      \* the call read a row of mMatrix never assigned

mixer == <<mMatrix, mMatrixWritten, mInputChannelMask,
           mLastValidChannelIndexPlusOne, mInputChannelCount>>
call == <<op, ret, argMask, setRet, frameCount, accumulate, srcHot, srcA, srcB,
          dstFill, dst, srcRead, dstWritten, uninitRead>>
vars == <<mixer, call>>

\* The members as one record, as the methods see them.
This ==
    [matrix |-> mMatrix, written |-> mMatrixWritten, mask |-> mInputChannelMask,
     last |-> mLastValidChannelIndexPlusOne, count |-> mInputChannelCount]

\* ---------------------------------------------------- setInputChannelMask
\* inputChannelMask & ~((1 << FCC_24) - 1), on an unsigned 32-bit mask.
RECURSIVE Pow2(_)
Pow2(n) == IF n = 0 THEN 1 ELSE 2 * Pow2(n - 1)

PositionSlots == Pow2(FCC_24)
\* A fault: the range test is one bit too wide.
HasUnknownChannelsOffByOne(inputChannelMask) ==
    inputChannelMask \div (2 * PositionSlots) # 0
HasUnknownChannels(inputChannelMask) == inputChannelMask \div PositionSlots # 0

\* tmp & -(signed)tmp: the lowest set bit of tmp # 0.
RECURSIVE LowestBitOf(_)
LowestBitOf(tmp) == IF tmp % 2 = 1 THEN 1 ELSE 2 * LowestBitOf(tmp \div 2)

\* A fault: the side channels are left out of the left and right cases.
GainRowNoSide(lowestBit) ==
    IF lowestBit \in {AUDIO_CHANNEL_OUT_FRONT_LEFT, AUDIO_CHANNEL_OUT_BACK_LEFT}
    THEN <<FHalf, FZero>>
    ELSE IF lowestBit \in {AUDIO_CHANNEL_OUT_FRONT_RIGHT,
                           AUDIO_CHANNEL_OUT_BACK_RIGHT}
    THEN <<FZero, FHalf>>
    ELSE IF lowestBit \in {AUDIO_CHANNEL_OUT_FRONT_CENTER,
                           AUDIO_CHANNEL_OUT_LOW_FREQUENCY,
                           AUDIO_CHANNEL_OUT_BACK_CENTER}
    THEN <<FMul(FHalf, MINUS_3_DB_IN_FLOAT), FMul(FHalf, MINUS_3_DB_IN_FLOAT)>>
    ELSE <<FZero, FZero>>
\* A fault: the center-ish channels are not attenuated by MINUS_3_DB_IN_FLOAT.
GainRowCenterFull(lowestBit) ==
    IF lowestBit \in {AUDIO_CHANNEL_OUT_FRONT_LEFT, AUDIO_CHANNEL_OUT_SIDE_LEFT,
                      AUDIO_CHANNEL_OUT_BACK_LEFT}
    THEN <<FHalf, FZero>>
    ELSE IF lowestBit \in {AUDIO_CHANNEL_OUT_FRONT_RIGHT, AUDIO_CHANNEL_OUT_SIDE_RIGHT,
                           AUDIO_CHANNEL_OUT_BACK_RIGHT}
    THEN <<FZero, FHalf>>
    ELSE IF lowestBit \in {AUDIO_CHANNEL_OUT_FRONT_CENTER,
                           AUDIO_CHANNEL_OUT_LOW_FREQUENCY,
                           AUDIO_CHANNEL_OUT_BACK_CENTER}
    THEN <<FHalf, FHalf>>
    ELSE <<FZero, FZero>>
\* The row the switch assigns for lowestBit: <<left gain, right gain>>.
GainRow(lowestBit) ==
    IF lowestBit \in {AUDIO_CHANNEL_OUT_FRONT_LEFT, AUDIO_CHANNEL_OUT_SIDE_LEFT,
                      AUDIO_CHANNEL_OUT_BACK_LEFT}
    THEN <<FHalf, FZero>>
    ELSE IF lowestBit \in {AUDIO_CHANNEL_OUT_FRONT_RIGHT, AUDIO_CHANNEL_OUT_SIDE_RIGHT,
                           AUDIO_CHANNEL_OUT_BACK_RIGHT}
    THEN <<FZero, FHalf>>
    ELSE IF lowestBit \in {AUDIO_CHANNEL_OUT_FRONT_CENTER,
                           AUDIO_CHANNEL_OUT_LOW_FREQUENCY,
                           AUDIO_CHANNEL_OUT_BACK_CENTER}
    THEN <<FMul(FHalf, MINUS_3_DB_IN_FLOAT), FMul(FHalf, MINUS_3_DB_IN_FLOAT)>>
    ELSE <<FZero, FZero>>

\* The cases of the switch that assign mLastValidChannelIndexPlusOne.
SetsLastValid(lowestBit) ==
    lowestBit \in {AUDIO_CHANNEL_OUT_FRONT_LEFT, AUDIO_CHANNEL_OUT_SIDE_LEFT,
                   AUDIO_CHANNEL_OUT_BACK_LEFT,
                   AUDIO_CHANNEL_OUT_FRONT_RIGHT, AUDIO_CHANNEL_OUT_SIDE_RIGHT,
                   AUDIO_CHANNEL_OUT_BACK_RIGHT,
                   AUDIO_CHANNEL_OUT_FRONT_CENTER, AUDIO_CHANNEL_OUT_LOW_FREQUENCY,
                   AUDIO_CHANNEL_OUT_BACK_CENTER}

\* for (unsigned tmp = inputChannelMask; tmp != 0; ++index) { ... tmp ^= lowestBit; }
\* on the members in m, from loop state (tmp, index); the result carries the
\* final index in .count.
RECURSIVE DecodeLoop(_, _, _)
DecodeLoop(m, tmp, index) ==
    IF tmp = 0 THEN [m EXCEPT !.count = index]
    ELSE LET lowestBit == LowestBitOf(tmp)
         IN  DecodeLoop(
                 [m EXCEPT !.matrix[index] = GainRow(lowestBit),
                           !.written = @ \cup {index},
                           !.last = IF SetsLastValid(lowestBit) THEN index + 1 ELSE @],
                 tmp - lowestBit,
                 index + 1)

\* A fault: the channel count is taken one short.
setInputChannelMaskCountOff(m, inputChannelMask) ==
    IF m.mask # inputChannelMask
    THEN IF HasUnknownChannels(inputChannelMask)
         THEN [ret |-> FALSE, m |-> m]
         ELSE LET d == DecodeLoop(m, inputChannelMask, 0)
              IN  [ret |-> TRUE,
                   m |-> [d EXCEPT !.mask = inputChannelMask,
                                   !.count = IF @ > 1 THEN @ - 1 ELSE @]]
    ELSE [ret |-> TRUE, m |-> m]
\* bool setInputChannelMask(inputChannelMask): [ret, m] with m the members after.
setInputChannelMask(m, inputChannelMask) ==
    IF m.mask # inputChannelMask
    THEN IF HasUnknownChannels(inputChannelMask)
         THEN [ret |-> FALSE, m |-> m]
         ELSE LET d == DecodeLoop(m, inputChannelMask, 0)
              IN  [ret |-> TRUE, m |-> [d EXCEPT !.mask = inputChannelMask]]
    ELSE [ret |-> TRUE, m |-> m]

\* ------------------------------------------------------------- the buffers
\* The memory src points into holds the float srcA at index srcHot and
\* srcB everywhere else; by the buffer contract the caller's buffer is its
\* first frameCount * mInputChannelCount samples, and what a read past them
\* returns is whatever this memory holds there.
SrcAt(src, i) == IF i = src.hot THEN FSample(src.a) ELSE FSample(src.b)

\* dst holds mOutputChannelCount * MaxFrames samples.
DstLen == mOutputChannelCount * MaxFrames
\* dst before a call: every sample is the float fill.
DstIn(fill) == [j \in 0 .. DstLen - 1 |-> FSample(fill)]

\* ------------------------------------------------------------ matrixProcess
\* for (i = from; i < mLastValidChannelIndexPlusOne; ++i) ch[c] += mMatrix[i][c] * src[i]
\* with src advanced to base; c is 1 (left) or 2 (right).
RECURSIVE MatrixSum(_, _, _, _, _)
MatrixSum(m, src, base, c, from) ==
    IF from >= m.last THEN FZero
    ELSE FAdd(FMul(m.matrix[from][c], SrcAt(src, base + from)),
              MatrixSum(m, src, base, c, from + 1))

\* What one frame stores in dst[c - 1] of the frame at dst base 2 * f.
MatrixFrame(m, src, dstIn, accum, f, c) ==
    LET ch == MatrixSum(m, src, f * m.count, c, 0)
    IN  clamp(IF accum THEN FAdd(ch, dstIn[mOutputChannelCount * f + c - 1]) ELSE ch)

\* A fault: the frames are mixed before the mask is tested.
matrixProcessWriteFirst(m, src, dstIn, frames, accum) ==
    [ret |-> m.mask # AUDIO_CHANNEL_NONE,
     dst |-> [j \in 0 .. DstLen - 1 |->
                IF j < mOutputChannelCount * frames
                THEN MatrixFrame(m, src, dstIn, accum, j \div 2, (j % 2) + 1)
                ELSE dstIn[j]],
     srcRead |-> {f * m.count + i : f \in 0 .. frames - 1, i \in 0 .. m.last - 1},
     dstWritten |-> 0 .. mOutputChannelCount * frames - 1,
     uninitRead |-> frames > 0 /\ \E i \in 0 .. m.last - 1 : i \notin m.written]
\* bool matrixProcess(src, dst, frameCount, accumulate) const
matrixProcess(m, src, dstIn, frames, accum) ==
    IF m.mask = AUDIO_CHANNEL_NONE
    THEN [ret |-> FALSE, dst |-> dstIn, srcRead |-> {}, dstWritten |-> {},
          uninitRead |-> FALSE]
    ELSE [ret |-> TRUE,
          dst |-> [j \in 0 .. DstLen - 1 |->
                     IF j < mOutputChannelCount * frames
                     THEN MatrixFrame(m, src, dstIn, accum, j \div 2, (j % 2) + 1)
                     ELSE dstIn[j]],
          srcRead |-> {f * m.count + i : f \in 0 .. frames - 1, i \in 0 .. m.last - 1},
          dstWritten |-> 0 .. mOutputChannelCount * frames - 1,
          uninitRead |-> frames > 0 /\ \E i \in 0 .. m.last - 1 : i \notin m.written]

\* ---------------------------------------------------------- specificProcess
\* ch[c - 1] of one frame before "ch *= 0.5", src advanced to base.
SpecificSum(CHANNEL_COUNT, src, base, c) ==
    LET s(k) == SrcAt(src, base + k)
        centerPlusLfeContrib == FAdd(s(2), s(3))
    IN  IF CHANNEL_COUNT = 4
        THEN (IF c = 1 THEN FAdd(s(0), s(2)) ELSE FAdd(s(1), s(3)))
        ELSE IF CHANNEL_COUNT = 6
        THEN (IF c = 1
              THEN FAdd(FAdd(s(0), s(4)), FMul(centerPlusLfeContrib, MINUS_3_DB_IN_FLOAT))
              ELSE FAdd(FAdd(s(1), s(5)), FMul(centerPlusLfeContrib, MINUS_3_DB_IN_FLOAT)))
        ELSE (IF c = 1
              THEN FAdd(FAdd(FAdd(s(0), s(4)), s(6)),
                        FMul(centerPlusLfeContrib, MINUS_3_DB_IN_FLOAT))
              ELSE FAdd(FAdd(FAdd(s(1), s(5)), s(7)),
                        FMul(centerPlusLfeContrib, MINUS_3_DB_IN_FLOAT)))

\* What one frame stores in dst[c - 1] of the frame at dst base 2 * f.
SpecificFrame(CHANNEL_COUNT, ACCUMULATE, src, dstIn, f, c) ==
    LET ch == FMul(SpecificSum(CHANNEL_COUNT, src, f * CHANNEL_COUNT, c), FHalf)
    IN  IF ACCUMULATE
        THEN clamp(FAdd(dstIn[mOutputChannelCount * f + c - 1], ch))
        ELSE clamp(ch)

\* template <int CHANNEL_COUNT, bool ACCUMULATE> static bool specificProcess(src, dst, frameCount)
specificProcess(CHANNEL_COUNT, ACCUMULATE, src, dstIn, frames) ==
    IF frames > 0 /\ CHANNEL_COUNT \notin {4, 6, 8}
    THEN [ret |-> FALSE, dst |-> dstIn, srcRead |-> {}, dstWritten |-> {},
          uninitRead |-> FALSE]
    ELSE [ret |-> TRUE,
          dst |-> [j \in 0 .. DstLen - 1 |->
                     IF j < mOutputChannelCount * frames
                     THEN SpecificFrame(CHANNEL_COUNT, ACCUMULATE, src, dstIn,
                                        j \div 2, (j % 2) + 1)
                     ELSE dstIn[j]],
          srcRead |-> {f * CHANNEL_COUNT + k :
                         f \in 0 .. frames - 1, k \in 0 .. CHANNEL_COUNT - 1},
          dstWritten |-> 0 .. mOutputChannelCount * frames - 1,
          uninitRead |-> FALSE]

\* ------------------------------------------------------------ processSwitch
\* template <bool ACCUMULATE> bool processSwitch(src, dst, frameCount) const
processSwitch(m, ACCUMULATE, src, dstIn, frames) ==
    IF m.mask \in {AUDIO_CHANNEL_OUT_QUAD_BACK, AUDIO_CHANNEL_OUT_QUAD_SIDE}
    THEN specificProcess(4, ACCUMULATE, src, dstIn, frames)
    ELSE IF m.mask \in {AUDIO_CHANNEL_OUT_5POINT1_BACK, AUDIO_CHANNEL_OUT_5POINT1_SIDE}
    THEN specificProcess(6, ACCUMULATE, src, dstIn, frames)
    ELSE IF m.mask = AUDIO_CHANNEL_OUT_7POINT1
    THEN specificProcess(8, ACCUMULATE, src, dstIn, frames)
    ELSE matrixProcess(m, src, dstIn, frames, ACCUMULATE)

\* bool process(src, dst, frameCount, accumulate) const
process(m, src, dstIn, frames, accum) ==
    IF accum THEN processSwitch(m, TRUE, src, dstIn, frames)
    ELSE processSwitch(m, FALSE, src, dstIn, frames)

\* ------------------------------------------------------------------ inputs
\* The masks callers pass: none, stereo, the five fast-path layouts, front and
\* back center, masks with an in-range bit the switch does not name (64, alone
\* and below side left and side right), and
\* a mask with a bit outside the FCC_24 position slots (bit 24).
Masks ==
    {AUDIO_CHANNEL_NONE,
     AUDIO_CHANNEL_OUT_FRONT_LEFT + AUDIO_CHANNEL_OUT_FRONT_RIGHT,
     AUDIO_CHANNEL_OUT_QUAD_BACK, AUDIO_CHANNEL_OUT_QUAD_SIDE,
     AUDIO_CHANNEL_OUT_5POINT1_BACK, AUDIO_CHANNEL_OUT_5POINT1_SIDE,
     AUDIO_CHANNEL_OUT_7POINT1,
     AUDIO_CHANNEL_OUT_FRONT_CENTER + AUDIO_CHANNEL_OUT_BACK_CENTER,
     64,
     64 + AUDIO_CHANNEL_OUT_SIDE_LEFT + AUDIO_CHANNEL_OUT_SIDE_RIGHT,
     Pow2(FCC_24) + AUDIO_CHANNEL_OUT_FRONT_LEFT + AUDIO_CHANNEL_OUT_FRONT_RIGHT}

\* The number of set bits of a mask.
RECURSIVE BitCount(_)
BitCount(n) == IF n = 0 THEN 0 ELSE (n % 2) + BitCount(n \div 2)
\* The most channels a mask of Masks has.
MaxChannels ==
    CHOOSE c \in 0 .. FCC_24 :
        /\ \E k \in Masks : k < PositionSlots /\ BitCount(k) = c
        /\ \A k \in Masks : k < PositionSlots => BitCount(k) <= c
SrcLen == MaxFrames * MaxChannels
Samples == {-SampleMax, 0, SampleMax}
\* Either every sample is the same, or one sample (where it sits matters)
\* stands out of silence.
SrcBuffers ==
    {[hot |-> 0, a |-> b, b |-> b] : b \in Samples}
    \cup {[hot |-> h, a |-> a, b |-> 0] : h \in 0 .. SrcLen - 1, a \in {SampleMax}}
\* The five-argument process is called with the buffers among these whose odd
\* sample sits in the first two places; its mixing step is the four-argument one.
SrcBuffers5 == {s \in SrcBuffers : s.hot <= 1}
DstFills == {-DstMax, 0, DstMax}

\* -------------------------------------------------------------- the object
\* ChannelMix() = default: the members' initializers; mMatrix has none.
Default ==
    [matrix |-> [i \in 0 .. FCC_24 - 1 |-> <<FZero, FZero>>],
     written |-> {},
     mask |-> AUDIO_CHANNEL_NONE,
     last |-> 0,
     count |-> 0]

NoBuffers ==
    /\ frameCount = 0
    /\ accumulate = FALSE
    /\ srcHot = 0 /\ srcA = 0 /\ srcB = 0
    /\ dstFill = 0
    /\ dst = DstIn(0)
    /\ srcRead = {}
    /\ dstWritten = {}
    /\ uninitRead = FALSE

ClearBuffers ==
    /\ frameCount' = 0
    /\ accumulate' = FALSE
    /\ srcHot' = 0 /\ srcA' = 0 /\ srcB' = 0
    /\ dstFill' = 0
    /\ dst' = DstIn(0)
    /\ srcRead' = {}
    /\ dstWritten' = {}
    /\ uninitRead' = FALSE

SetMixer(m) ==
    /\ mMatrix' = m.matrix
    /\ mMatrixWritten' = m.written
    /\ mInputChannelMask' = m.mask
    /\ mLastValidChannelIndexPlusOne' = m.last
    /\ mInputChannelCount' = m.count

\* ChannelMix() or ChannelMix(inputChannelMask).
Init ==
    /\ \/ /\ mMatrix = Default.matrix
          /\ mMatrixWritten = Default.written
          /\ mInputChannelMask = Default.mask
          /\ mLastValidChannelIndexPlusOne = Default.last
          /\ mInputChannelCount = Default.count
          /\ argMask = AUDIO_CHANNEL_NONE
          /\ setRet = TRUE
       \/ \E inputChannelMask \in Masks :
            LET r == setInputChannelMask(Default, inputChannelMask)
            IN  /\ mMatrix = r.m.matrix
                /\ mMatrixWritten = r.m.written
                /\ mInputChannelMask = r.m.mask
                /\ mLastValidChannelIndexPlusOne = r.m.last
                /\ mInputChannelCount = r.m.count
                /\ argMask = inputChannelMask
                /\ setRet = r.ret
    /\ op = "new"
    /\ ret = TRUE
    /\ NoBuffers

\* A caller's buffers are live from a process call until the caller lets go
\* of them; the mixer keeps no reference to them.
BuffersLive == op \in {"process4", "process5"}

\* mixer.setInputChannelMask(inputChannelMask)
SetInputChannelMask(inputChannelMask) ==
    \E r \in {setInputChannelMask(This, inputChannelMask)} :
        /\ SetMixer(r.m)
        /\ op' = "set"
        /\ ret' = r.ret
        /\ argMask' = inputChannelMask
        /\ setRet' = r.ret
        /\ ClearBuffers

RecordCall(frames, accum, src, fill, p) ==
    /\ frameCount' = frames
    /\ accumulate' = accum
    /\ srcHot' = src.hot /\ srcA' = src.a /\ srcB' = src.b
    /\ dstFill' = fill
    /\ dst' = p.dst
    /\ srcRead' = p.srcRead
    /\ dstWritten' = p.dstWritten
    /\ uninitRead' = p.uninitRead

\* mixer.process(src, dst, frameCount, accumulate)
Process4(src, fill, frames, accum) ==
    /\ \E p \in {process(This, src, DstIn(fill), frames, accum)} :
           /\ UNCHANGED mixer
           /\ op' = "process4"
           /\ ret' = p.ret
           /\ argMask' = mInputChannelMask
           /\ setRet' = TRUE
           /\ RecordCall(frames, accum, src, fill, p)

\* mixer.process(src, dst, frameCount, accumulate, inputChannelMask):
\* setInputChannelMask(inputChannelMask) && process(src, dst, frameCount, accumulate)
Process5(src, fill, frames, accum, inputChannelMask) ==
    /\ \E r \in {setInputChannelMask(This, inputChannelMask)} :
       \E p \in {IF r.ret
                 THEN process(r.m, src, DstIn(fill), frames, accum)
                 ELSE [ret |-> FALSE, dst |-> DstIn(fill), srcRead |-> {},
                       dstWritten |-> {}, uninitRead |-> FALSE]} :
           /\ SetMixer(r.m)
           /\ op' = "process5"
           /\ ret' = p.ret
           /\ argMask' = inputChannelMask
           /\ setRet' = r.ret
           /\ RecordCall(frames, accum, src, fill, p)

\* The caller is done with the buffers of its last process call.
ReleaseBuffers ==
    /\ BuffersLive
    /\ UNCHANGED mixer
    /\ op' = "released"
    /\ ret' = TRUE
    /\ argMask' = mInputChannelMask
    /\ setRet' = TRUE
    /\ ClearBuffers

\* A caller makes its next call once it has let go of the buffers of the last.
Next ==
    \/ /\ ~BuffersLive
       /\ \E inputChannelMask \in Masks : SetInputChannelMask(inputChannelMask)
    \/ /\ ~BuffersLive
       /\ \E src \in SrcBuffers, fill \in DstFills, frames \in 0 .. MaxFrames,
             accum \in BOOLEAN : Process4(src, fill, frames, accum)
    \/ /\ ~BuffersLive
       /\ \E src \in SrcBuffers5, fill \in DstFills, frames \in 0 .. MaxFrames,
             accum \in BOOLEAN, inputChannelMask \in Masks :
             Process5(src, fill, frames, accum, inputChannelMask)
    \/ ReleaseBuffers

Spec == Init /\ [][Next]_vars

\* --------------------------------------------------------- sanity of model
TypeOK ==
    /\ mInputChannelMask \in Masks
    /\ mLastValidChannelIndexPlusOne \in 0 .. FCC_24
    /\ mInputChannelCount \in 0 .. FCC_24
    /\ op \in {"new", "set", "process4", "process5", "released"}
    /\ ret \in BOOLEAN /\ setRet \in BOOLEAN
    /\ frameCount \in 0 .. MaxFrames
\* No call reads a row of mMatrix that no setInputChannelMask has assigned.
NoUninitRead == ~uninitRead

\* ================================================================= claims
\* What the claims speak of, stated apart from the methods above.

\* The bit positions set in each mask of Masks.
MaskBits == [k \in Masks |-> {p \in 0 .. 30 : (k \div Pow2(p)) % 2 = 1}]
Bits(mask) == MaskBits[mask]
\* The masks with a bit outside the 24 supported position slots.
OutOfRangeMasks == {k \in Masks : \E p \in MaskBits[k] : p >= 24}
OutOfRange(mask) == mask \in OutOfRangeMasks
\* The channel index of bit position p: the number of set bits below it.
RefIndex(mask, p) == Cardinality({q \in Bits(mask) : q < p})
\* Positions of the roles: FL 0, FR 1, FC 2, LFE 3, BL 4, BR 5, BC 8, SL 9, SR 10.
LeftPositions == {0, 4, 9}
RightPositions == {1, 5, 10}
CenterPositions == {2, 3, 8}
RecognizedPositions == LeftPositions \cup RightPositions \cup CenterPositions
\* 0.5 is <<2, 0>> and 0.5/sqrt(2) is <<0, 2>> in quarters.
RefRow(p) ==
    IF p \in LeftPositions THEN <<(<<2, 0>>), (<<0, 0>>)>>
    ELSE IF p \in RightPositions THEN <<(<<0, 0>>), (<<2, 0>>)>>
    ELSE IF p \in CenterPositions THEN <<(<<0, 2>>), (<<0, 2>>)>>
    ELSE <<(<<0, 0>>), (<<0, 0>>)>>
\* The gain table of each mask: the pairs <<channel index, row>>.
RefTable == [k \in Masks |-> {<<RefIndex(k, p), RefRow(p)>> : p \in MaskBits[k]}]
\* One past the highest channel index of the mask with a non-zero gain pattern.
RefLastOf ==
    [k \in Masks |->
        LET rec == MaskBits[k] \cap RecognizedPositions
        IN  IF rec = {} THEN 0
            ELSE RefIndex(k, CHOOSE p \in rec : \A q \in rec : q <= p) + 1]
RefLast(mask) == RefLastOf[mask]
\* The masks that name no recognized role.
UnrecognizedMasks == {k \in Masks : MaskBits[k] \cap RecognizedPositions = {}}
FastMasks ==
    {AUDIO_CHANNEL_OUT_QUAD_BACK, AUDIO_CHANNEL_OUT_QUAD_SIDE,
     AUDIO_CHANNEL_OUT_5POINT1_BACK, AUDIO_CHANNEL_OUT_5POINT1_SIDE,
     AUDIO_CHANNEL_OUT_7POINT1}

IsSet == op \in {"set", "process5"}
IsProcess == op \in {"process4", "process5"}
SrcNow == [hot |-> srcHot, a |-> srcA, b |-> srcB]
\* The destination samples a call of frameCount frames is to write.
DstRange == 0 .. mOutputChannelCount * frameCount - 1
\* The contribution of the source to dst[j], before accumulation and clamp.
Contribution(j) ==
    IF mInputChannelMask \in FastMasks
    THEN FMul(SpecificSum(mInputChannelCount, SrcNow,
                          (j \div 2) * mInputChannelCount, (j % 2) + 1), FHalf)
    ELSE MatrixSum(This, SrcNow, (j \div 2) * mInputChannelCount, (j % 2) + 1, 0)

\* C1: a set or five-argument process with a mask that has a bit outside the 24
\* position slots returns false and leaves mask, gain table, channel count and
\* last-valid index as they were.
C1_InvalidMaskRejected ==
    [][(IsSet' /\ OutOfRange(argMask')) => (~ret' /\ ~setRet' /\ mixer' = mixer)]_vars
C1_Witness ==
    /\ op = "process5" /\ OutOfRange(argMask) /\ ~ret
    /\ mInputChannelMask = AUDIO_CHANNEL_OUT_7POINT1

\* C2: a process call that returns false has written no destination sample.
C2_FailedProcessWritesNothing ==
    (IsProcess /\ ~ret) => (dst = DstIn(dstFill) /\ dstWritten = {})
C2_Witness ==
    /\ op = "process4" /\ ~ret /\ mInputChannelMask = AUDIO_CHANNEL_NONE
    /\ frameCount = MaxFrames /\ dstFill # 0 /\ mLastValidChannelIndexPlusOne > 0

\* C3: the mixer state changes only in a set step that returns true, the
\* four-argument process never changes it, and no step takes a configured
\* mixer back to mask none.
C3_NeverBackToUnconfigured ==
    [][/\ (mixer' # mixer => (IsSet' /\ setRet'))
       /\ (op' = "process4" => mixer' = mixer)
       /\ (mInputChannelMask # AUDIO_CHANNEL_NONE
              => mInputChannelMask' # AUDIO_CHANNEL_NONE)]_vars

\* C4: with a non-empty in-range mask that names no recognized role set, a
\* process without accumulate succeeds and writes 0 to every destination sample.
C4_UnrecognizedMaskMixesToZero ==
    (/\ IsProcess /\ setRet /\ ~accumulate
     /\ mInputChannelMask # AUDIO_CHANNEL_NONE
     /\ mInputChannelMask \in UnrecognizedMasks)
    => (ret /\ \A j \in DstRange : dst[j] = FZero)

\* C5: on the five fast-path masks the result of process equals what the
\* matrix path computes from the gain table for the same buffers.
C5_FastPathEqualsMatrixPath ==
    (IsProcess /\ ret /\ mInputChannelMask \in FastMasks)
    => dst = matrixProcess(This, SrcNow, DstIn(dstFill), frameCount, accumulate).dst
C5_Witness ==
    /\ IsProcess /\ ret /\ mInputChannelMask = AUDIO_CHANNEL_OUT_7POINT1
    /\ frameCount = MaxFrames /\ accumulate
    /\ \E j \in DstRange : j >= 2 /\ dst[j] \notin {FZero, FSample(dstFill)}
                           /\ dst[j][2] # 0

\* C6: a successful process reads only src[0 .. frameCount * channel count)
\* and writes exactly dst[0 .. 2 * frameCount).
C6_BufferContract ==
    (IsProcess /\ ret)
    => /\ srcRead \subseteq 0 .. frameCount * BitCount(mInputChannelMask) - 1
       /\ dstWritten = DstRange

\* C7: every sample a successful process writes lies in [-1, 1], and it is the
\* limit exactly when contribution plus prior destination (when accumulating)
\* lies beyond the limit, the sum itself otherwise.
C7_ClampAfterAccumulate ==
    (IsProcess /\ ret)
    => \A j \in DstRange :
        LET sum == IF accumulate
                   THEN FAdd(Contribution(j), FSample(dstFill))
                   ELSE Contribution(j)
        IN  /\ ~FLess(<<4, 0>>, dst[j])
            /\ ~FLess(dst[j], <<-4, 0>>)
            /\ dst[j] = IF FLess(<<4, 0>>, sum) THEN <<4, 0>>
                        ELSE IF FLess(sum, <<-4, 0>>) THEN <<-4, 0>>
                        ELSE sum
C7_Witness ==
    /\ IsProcess /\ ret /\ accumulate /\ dstFill > 0
    /\ \E j \in DstRange :
          /\ FLess(FZero, Contribution(j))
          /\ FLess(<<4, 0>>, FAdd(Contribution(j), FSample(dstFill)))
          /\ dst[j] = <<4, 0>>

\* C8: after a successful set with a mask other than the current one, the
\* k-th set bit of the mask in ascending order owns row k of the gain table,
\* and the row is the one of the bit's role.
C8_GainTableDecodesMask ==
    [][(IsSet' /\ setRet' /\ argMask' # mInputChannelMask)
       => \A e \in RefTable[argMask'] : mMatrix'[e[1]] = e[2]]_vars
C8_Witness ==
    /\ op = "set" /\ ret
    /\ mInputChannelMask = 64 + AUDIO_CHANNEL_OUT_SIDE_LEFT + AUDIO_CHANNEL_OUT_SIDE_RIGHT
    /\ mMatrix[0] = <<FZero, FZero>> /\ mMatrix[1] = <<FHalf, FZero>>
    /\ mMatrix[3] # <<FZero, FZero>>

\* C9: while a mask is configured, the last-valid index is one past the highest
\* channel index of that mask with a non-zero gain pattern (0 when it has none),
\* and never exceeds the channel count.
C9_LastValidIndexOfCurrentMask ==
    mInputChannelMask # AUDIO_CHANNEL_NONE
    => /\ mLastValidChannelIndexPlusOne = RefLast(mInputChannelMask)
       /\ mLastValidChannelIndexPlusOne <= mInputChannelCount

\* C10: the channel count is the number of set bits of the current mask, and
\* the matrix path reads each frame from that many samples past the last.
C10_ChannelCountIsBitCount ==
    /\ mInputChannelCount = BitCount(mInputChannelMask)
    /\ (IsProcess /\ ret /\ mInputChannelMask \notin FastMasks)
       => srcRead = {f * BitCount(mInputChannelMask) + i :
                       f \in 0 .. frameCount - 1,
                       i \in 0 .. mLastValidChannelIndexPlusOne - 1}
C10_Witness ==
    /\ op = "process4" /\ ret /\ frameCount = MaxFrames
    /\ mInputChannelMask = 64 + AUDIO_CHANNEL_OUT_SIDE_LEFT + AUDIO_CHANNEL_OUT_SIDE_RIGHT
    /\ mInputChannelCount = 3
    /\ 5 \in srcRead
    /\ srcHot = 4 /\ dst[2] = <<2, 0>>

====
